---- MODULE Spec2Model ----
(***************************************************************************)
(* Query engine of the sherlock launcher: the bounded-gap matcher, the     *)
(* mode state machine, the filter-rank pipeline of a launcher window and   *)
(* the refresh orchestrator of the activation loop.                        *)
(*                                                                         *)
(* Strings are sequences of one-character strings.  Option<T> is a         *)
(* sequence of length 0 (None) or 1 (Some).                                *)
(***************************************************************************)
EXTENDS Integers, Sequences, FiniteSets, TLC

VARIABLES
    data,                 \* Entity<Arc<Vec<RenderableChild>>>: the item pool
    current_generation,   \* the activation loop's counter
    active_update_task,   \* the loop's Option<Task>: generation of the batch it holds
    update_tasks,         \* refresh batches that are alive (spawned, not dropped, not finished)
    view,                 \* SherlockMainWindow of the current window
    render_tasks,         \* pipeline runs that are alive
    event,                \* history: what the last step did
    call,                 \* function-level checks: the arguments
    ret                   \* function-level checks: the result

vars == <<data, current_generation, active_update_task, update_tasks, view,
          render_tasks, event, call, ret>>

sysvars == <<data, current_generation, active_update_task, update_tasks, view,
             render_tasks, event>>

----------------------------------------------------------------------------
(* Bounds *)

MaxTargetLen == 8
MaxPatternLen == 3
MaxQueryLen == 3
MaxContentLen == 2
MaxGen == 2
MaxTextLen == 4
MaxValues == 3

----------------------------------------------------------------------------
(* Option and strings *)

None == <<>>
Some(x) == <<x>>
IsSome(o) == Len(o) = 1
Unwrap(o) == o[1]

NoEvent == [kind |-> "none"]

\* the argument and result records of the function-level checks
NoCall == [fn |-> "none"]
NoRet == [done |-> FALSE]
Ret(v) == [done |-> TRUE, val |-> v]

Min(a, b) == IF a < b THEN a ELSE b

Strings(alphabet, n) == UNION {[1..k -> alphabet] : k \in 0..n}

ascii_lower(c) ==
    CASE c = "A" -> "a"
      [] c = "B" -> "b"
      [] OTHER -> c

to_lowercase(s) == [i \in 1..Len(s) |-> ascii_lower(s[i])]

eq_ignore_ascii_case(s, t) == to_lowercase(s) = to_lowercase(t)

strip_suffix(s, c) ==
    IF Len(s) > 0 /\ s[Len(s)] = c THEN Some(SubSeq(s, 1, Len(s) - 1)) ELSE None

RECURSIVE trim_start(_)
trim_start(s) ==
    IF Len(s) > 0 /\ s[1] = " " THEN trim_start(Tail(s)) ELSE s

RECURSIVE trim_end(_)
trim_end(s) ==
    IF Len(s) > 0 /\ s[Len(s)] = " " THEN trim_end(SubSeq(s, 1, Len(s) - 1)) ELSE s

trim(s) == trim_end(trim_start(s))

\* s[from..] with a 0-based start, as a Rust slice
SliceFrom(s, from) == SubSeq(s, from + 1, Len(s))

----------------------------------------------------------------------------
(* Matcher: launcher/children/mod.rs *)

WindowSize == 5

\* memchr::memchr: 0-based position of the first occurrence, or None
RECURSIVE memchr_from(_, _, _)
memchr_from(needle, haystack, i) ==
    IF i >= Len(haystack) THEN None
    ELSE IF haystack[i + 1] = needle THEN Some(i)
    ELSE memchr_from(needle, haystack, i + 1)

memchr(needle, haystack) == memchr_from(needle, haystack, 0)

\* the inner while loop of sequential_check: Some(t_idx after the hit) or None
RECURSIVE window_scan(_, _, _, _)
window_scan(target, pattern_char, t_idx, limit) ==
    IF t_idx >= limit THEN None
    ELSE IF target[t_idx + 1] = pattern_char THEN Some(t_idx + 1)
    ELSE window_scan(target, pattern_char, t_idx + 1, limit)

\* the for loop of sequential_check over pattern[1..], k is the 1-based pattern position
RECURSIVE sequential_loop(_, _, _, _, _)
sequential_loop(pattern, target, window_size, k, t_idx) ==
    IF k > Len(pattern) THEN TRUE
    ELSE LET limit == Min(t_idx + window_size, Len(target))
             hit == window_scan(target, pattern[k], t_idx, limit)
         IN  IF IsSome(hit)
             THEN sequential_loop(pattern, target, window_size, k + 1, Unwrap(hit))
             ELSE FALSE

sequential_check_wide(pattern, target, window_size) ==
    sequential_loop(pattern, target, window_size + 1, 2, 1)

sequential_check(pattern, target, window_size) ==
    sequential_loop(pattern, target, window_size, 2, 1)

\* the while-let loop of fuzzy_match over the remaining target
RECURSIVE anchor_loop(_, _)
anchor_loop(p_bytes, current_target) ==
    LET pos == memchr(p_bytes[1], current_target)
    IN  IF ~IsSome(pos) THEN FALSE
        ELSE IF sequential_check(p_bytes, SliceFrom(current_target, Unwrap(pos)), WindowSize)
             THEN TRUE
        ELSE IF Unwrap(pos) + 1 >= Len(current_target) THEN FALSE
        ELSE anchor_loop(p_bytes, SliceFrom(current_target, Unwrap(pos) + 1))

\* a matcher that gives up after the first anchor
fuzzy_match_first_anchor(t_bytes, p_bytes) ==
    IF p_bytes = <<>> THEN TRUE
    ELSE IF t_bytes = <<>> THEN FALSE
    ELSE LET pos == memchr(p_bytes[1], t_bytes)
         IN  IsSome(pos)
             /\ sequential_check(p_bytes, SliceFrom(t_bytes, Unwrap(pos)), WindowSize)

\* a matcher that looks at the target before the pattern
fuzzy_match_target_first(t_bytes, p_bytes) ==
    IF t_bytes = <<>> THEN FALSE
    ELSE IF p_bytes = <<>> THEN TRUE
    ELSE anchor_loop(p_bytes, t_bytes)

fuzzy_match(t_bytes, p_bytes) ==
    IF p_bytes = <<>> THEN TRUE
    ELSE IF t_bytes = <<>> THEN FALSE
    ELSE anchor_loop(p_bytes, t_bytes)

----------------------------------------------------------------------------
(* Mode state machine: ui/main_window/mod.rs, LauncherMode *)

Home == [kind |-> "Home", short |-> <<>>, name |-> ""]
Search == [kind |-> "Search", short |-> <<>>, name |-> ""]
Alias(short, name) == [kind |-> "Alias", short |-> short, name |-> name]

ALL == <<"a", "l", "l">>

\* the modes the properties below range over
AliasA == Alias(<<"a">>, "Apps")
AliasUpperA == Alias(<<"A">>, "Audio")
AliasAb == Alias(<<"a", "B">>, "Browser")
AliasSpaced == Alias(<<"a", " ">>, "Spaced")

\* an as_str that gives every mode the default lane
as_str_default_lane(mode) == ALL

as_str(mode) == IF mode.kind = "Alias" THEN mode.short ELSE ALL

\* a find that compares the short code exactly
RECURSIVE find_mode_exact(_, _, _)
find_mode_exact(modes, alias_input, i) ==
    IF i > Len(modes) THEN None
    ELSE IF modes[i].kind = "Alias" /\ modes[i].short = alias_input
         THEN Some(modes[i])
    ELSE find_mode_exact(modes, alias_input, i + 1)

\* modes.iter().find(..): the first Alias whose short equals the input, ignoring case
RECURSIVE find_mode(_, _, _)
find_mode(modes, alias_input, i) ==
    IF i > Len(modes) THEN None
    ELSE IF modes[i].kind = "Alias" /\ eq_ignore_ascii_case(modes[i].short, alias_input)
         THEN Some(modes[i])
    ELSE find_mode(modes, alias_input, i + 1)

\* a transition that also looks for an alias while in Home
transition_for_query_home_alias(mode, query, modes) ==
    LET stay == [mode |-> mode, clear |-> FALSE]
        alias_input == strip_suffix(query, " ")
        found_mode == IF IsSome(alias_input)
                      THEN find_mode(modes, Unwrap(alias_input), 1) ELSE None
    IN  IF mode.kind = "Search" /\ query = <<>> THEN [mode |-> Home, clear |-> FALSE]
        ELSE IF query # <<>> /\ IsSome(found_mode)
             THEN [mode |-> Unwrap(found_mode), clear |-> TRUE]
        ELSE IF mode.kind = "Home" /\ query # <<>> THEN [mode |-> Search, clear |-> FALSE]
        ELSE stay

\* a transition that leaves an Alias mode when the query becomes empty
transition_for_query_alias_exit(mode, query, modes) ==
    LET stay == [mode |-> mode, clear |-> FALSE]
    IN  IF mode.kind \in {"Search", "Alias"} /\ query = <<>>
        THEN [mode |-> Home, clear |-> FALSE]
        ELSE IF mode.kind = "Home" /\ query # <<>> THEN [mode |-> Search, clear |-> FALSE]
        ELSE IF mode.kind \in {"Search", "Alias"} /\ query # <<>>
             THEN LET alias_input == strip_suffix(query, " ")
                      found_mode == IF IsSome(alias_input)
                                    THEN find_mode(modes, Unwrap(alias_input), 1)
                                    ELSE None
                  IN  IF IsSome(found_mode)
                      THEN [mode |-> Unwrap(found_mode), clear |-> TRUE]
                      ELSE stay
        ELSE stay

\* returns the new value of *self and the bool the function returns
transition_for_query(mode, query, modes) ==
    LET stay == [mode |-> mode, clear |-> FALSE]
    IN  IF mode.kind = "Search" /\ query = <<>> THEN [mode |-> Home, clear |-> FALSE]
        ELSE IF mode.kind = "Home" /\ query # <<>> THEN [mode |-> Search, clear |-> FALSE]
        ELSE IF mode.kind \in {"Search", "Alias"} /\ query # <<>>
             THEN LET alias_input == strip_suffix(query, " ")
                      found_mode == IF IsSome(alias_input)
                                    THEN find_mode(modes, Unwrap(alias_input), 1)
                                    ELSE None
                  IN  IF IsSome(found_mode)
                      THEN [mode |-> Unwrap(found_mode), clear |-> TRUE]
                      ELSE stay
        ELSE stay

----------------------------------------------------------------------------
(* Scorer: ui/main_window/mod.rs, search_score and make_prio.               *)
(* A priority is an integer number of hundredths (134 is 1.34).  Scores are *)
(* integers in units of 1/Scale; Scale is a multiple of every field length  *)
(* that occurs and of 64, so the divisions below are exact.                 *)

Scale == 100 * 100 * 12

RECURSIVE split(_, _)
split(s, sep) ==
    LET pos == memchr(sep, s)
    IN  IF IsSome(pos)
        THEN <<SubSeq(s, 1, Unwrap(pos))>> \o split(SliceFrom(s, Unwrap(pos) + 1), sep)
        ELSE <<s>>

starts_with(s, prefix) ==
    Len(prefix) <= Len(s) /\ SubSeq(s, 1, Len(prefix)) = prefix

Min3(a, b, c) == Min(a, Min(b, c))

RECURSIVE levenshtein(_, _)
levenshtein(a, b) ==
    IF Len(a) = 0 THEN Len(b)
    ELSE IF Len(b) = 0 THEN Len(a)
    ELSE Min3(levenshtein(Tail(a), b) + 1,
              levenshtein(a, Tail(b)) + 1,
              levenshtein(Tail(a), Tail(b)) + (IF a[1] = b[1] THEN 0 ELSE 1))

\* a clamp that wraps what exceeds hi around to lo
clamp_wrapping(x, lo, hi) == IF x < lo THEN lo ELSE IF x > hi THEN lo ELSE x

clamp(x, lo, hi) == IF x < lo THEN lo ELSE IF x > hi THEN hi ELSE x

abs(x) == IF x < 0 THEN -x ELSE x

\* the for loop over match_in.split(';')
RECURSIVE score_fields(_, _, _, _)
score_fields(query, elements, i, best_score) ==
    IF i > Len(elements) THEN best_score
    ELSE LET element == elements[i]
         IN  IF element = <<>> THEN score_fields(query, elements, i + 1, best_score)
             ELSE IF element = query THEN 0
             ELSE IF starts_with(element, query)
                  THEN LET score == Scale \div 10
                                    + ((Scale \div 10) * (Len(element) - Len(query)))
                                        \div Len(element)
                       IN  score_fields(query, elements, i + 1, Min(score, best_score))
             ELSE IF abs(Len(element) - Len(query)) < 4
                  THEN LET dist == levenshtein(query, element)
                           normed == clamp((dist * Scale) \div Len(element),
                                           Scale \div 5, Scale)
                       IN  score_fields(query, elements, i + 1, Min(normed, best_score))
             ELSE score_fields(query, elements, i + 1, best_score)

\* a scorer that looks at the first field only
search_score_first_field(query, match_in) ==
    IF query = <<>> THEN (8 * Scale) \div 10
    ELSE IF match_in = <<>> THEN Scale
    ELSE score_fields(query, <<split(match_in, ";")[1]>>, 1, Scale)

\* a scorer without the constant for the empty query
search_score_no_default(query, match_in) ==
    IF match_in = <<>> THEN Scale
    ELSE score_fields(query, split(match_in, ";"), 1, Scale)

search_score(query, match_in) ==
    IF query = <<>> THEN (8 * Scale) \div 10
    ELSE IF match_in = <<>> THEN Scale
    ELSE score_fields(query, split(match_in, ";"), 1, Scale)

\* f32 arithmetic of the last addition of make_prio.  An f32 carries 24
\* significant bits, so between 2^e and 2^(e+1) its values are 2^(e-23) apart.
\* f32_steps(x) is the number of f32 values per unit at the integer x, from
\* x = 2^17 on (64 per unit); 0 stands for a finer spacing, where the sum is
\* kept exact.
RECURSIVE f32_steps_from(_, _, _)
f32_steps_from(x, lo, n) ==
    IF x < 2 * lo \/ n = 1 THEN n ELSE f32_steps_from(x, 2 * lo, n \div 2)

f32_steps(x) == IF x < 131072 THEN 0 ELSE f32_steps_from(x, 131072, 64)

\* num / den rounded to the nearest integer, ties to the one that makes
\* base + result even
round_ties_even(num, den, base) ==
    LET q == num \div den
        r == num % den
    IN  IF 2 * r < den THEN q
        ELSE IF 2 * r > den THEN q + 1
        ELSE IF (base + q) % 2 = 0 THEN q ELSE q + 1

\* trunc + m as f32, for an integer trunc and 0 <= m < 1 in units of 1/Scale;
\* a key is its integer part and its fractional part in units of 1/Scale
f32_add(trunc, m) ==
    LET n == f32_steps(trunc)
        frac == IF n = 0 THEN m
                ELSE round_ties_even(m * n, Scale, trunc * n) * (Scale \div n)
    IN  IF frac >= Scale THEN [int |-> trunc + 1, frac |-> frac - Scale]
        ELSE [int |-> trunc, frac |-> frac]

make_prio(prio, query, match_in) ==
    LET score == search_score(query, match_in)
        counters == ((prio % 100) * (Scale \div 100)) \div 100
    IN  f32_add(prio \div 100, Min(counters + score, (99 * Scale) \div 100))

\* a.partial_cmp(b) is Less or Equal
key_le(a, b) == a.int < b.int \/ (a.int = b.int /\ a.frac <= b.frac)

----------------------------------------------------------------------------
(* Item model: launcher/children/mod.rs.  An item is a record               *)
(*   kind         AppLike, CalcLike, MusicLike or WeatherLike               *)
(*   alias        launcher.alias, an Option                                 *)
(*   priority     hundredths                                                *)
(*   home         launcher.home                                             *)
(*   async        launcher.async                                            *)
(*   search       the text inner.search() returns for App and Weather items *)
(*   name         launcher.name, an Option                                  *)
(*   use_keywords the App launcher's flag                                   *)
(*   evaluable    CalcLike: the keywords its evaluators give a result for   *)
(*   raw          MusicLike: Option of the player snapshot, a record with   *)
(*                the Option of its title;                                  *)
(*                WeatherLike: Option of the fetched report                 *)

\* an item of the given kind with the texts the properties below range over
Item(kind, alias, prio, home) ==
    [kind |-> kind, alias |-> alias, priority |-> prio, home |-> home,
     async |-> kind \in {"MusicLike", "WeatherLike"},
     search |-> CASE kind = "AppLike" -> <<"a", "b">>
                  [] kind = "WeatherLike" -> <<"b">>
                  [] OTHER -> <<>>,
     name |-> IF kind = "AppLike" THEN Some(<<"a", "b">>) ELSE None,
     use_keywords |-> TRUE,
     evaluable |-> IF kind = "CalcLike" THEN {<<"b", "a">>} ELSE {},
     raw |-> None]

HomeTypes == {"Home", "OnlyHome", "Persist", "Search"}

search(item) ==
    IF item.kind \in {"CalcLike", "MusicLike"} THEN <<>> ELSE item.search

priority(item) == item.priority

\* CalcData::based_show; the evaluators (meval, Intent) are the item's data
calc_based_show(item, keyword) ==
    IF trim(keyword) = <<>> THEN FALSE ELSE keyword \in item.evaluable

based_show(item, query) ==
    CASE item.kind = "CalcLike" -> Some(calc_based_show(item, query))
      [] item.kind = "MusicLike" -> IF IsSome(item.raw) THEN None ELSE Some(FALSE)
      [] OTHER -> None

----------------------------------------------------------------------------
(* Filter-rank pipeline: the task filter_and_sort spawns *)

\* a filter that asks the visibility rule before the lane
filter_persist_first(item, mode, query, is_home) ==
    IF item.home = "Persist" THEN TRUE
    ELSE IF Some(mode) # item.alias /\ (mode # ALL \/ priority(item) < 100) THEN FALSE
    ELSE IF IsSome(based_show(item, query)) THEN Unwrap(based_show(item, query))
    ELSE IF ~is_home /\ item.home = "OnlyHome" THEN FALSE
    ELSE IF is_home /\ item.home = "Search" THEN FALSE
    ELSE fuzzy_match(search(item), query)

\* a filter that asks based_show before the visibility rule
filter_based_first(item, mode, query, is_home) ==
    IF Some(mode) # item.alias /\ (mode # ALL \/ priority(item) < 100) THEN FALSE
    ELSE IF IsSome(based_show(item, query)) THEN Unwrap(based_show(item, query))
    ELSE IF item.home = "Persist" THEN TRUE
    ELSE IF ~is_home /\ item.home = "OnlyHome" THEN FALSE
    ELSE IF is_home /\ item.home = "Search" THEN FALSE
    ELSE fuzzy_match(search(item), query)

\* the filter closure
filter(item, mode, query, is_home) ==
    IF Some(mode) # item.alias /\ (mode # ALL \/ priority(item) < 100) THEN FALSE
    ELSE IF item.home = "Persist" THEN TRUE
    ELSE IF IsSome(based_show(item, query)) THEN Unwrap(based_show(item, query))
    ELSE IF ~is_home /\ item.home = "OnlyHome" THEN FALSE
    ELSE IF is_home /\ item.home = "Search" THEN FALSE
    ELSE fuzzy_match(search(item), query)

\* a map closure that scores every item on its search text
match_in_search_text(item) == search(item)

\* the map closure: the text the item is scored on, and its key
match_in(item) ==
    IF item.kind = "AppLike" /\ ~item.use_keywords
    THEN (IF IsSome(item.name) THEN Unwrap(item.name) ELSE <<>>)
    ELSE search(item)

prio_of(item, query) == make_prio(priority(item), query, match_in(item))

\* a sort that puts the higher key first
sorted_orders_descending(accepted, key) ==
    {s \in [1..Cardinality(accepted) -> accepted] :
        /\ \A i, j \in DOMAIN s : i # j => s[i] # s[j]
        /\ \A i, j \in DOMAIN s : i < j => key_le(key[s[j]], key[s[i]])}

\* every order sort_unstable_by may leave the accepted indices in
sorted_orders(accepted, key) ==
    {s \in [1..Cardinality(accepted) -> accepted] :
        /\ \A i, j \in DOMAIN s : i # j => s[i] # s[j]
        /\ \A i, j \in DOMAIN s : i < j => key_le(key[s[i]], key[s[j]])}

\* a task that hands on the position after each accepted index
pipeline_results_one_past(data_arc, mode, query) ==
    LET mode_str == as_str(mode)
        is_home == query = <<>> /\ mode_str = ALL
        accepted == {i \in 1..Len(data_arc) : filter(data_arc[i], mode_str, query, is_home)}
        key == [i \in accepted |-> prio_of(data_arc[i], query)]
    IN  {[k \in DOMAIN s |-> s[k] + 1] : s \in sorted_orders(accepted, key)}

\* the results the task may hand to apply_results
pipeline_results(data_arc, mode, query) ==
    LET mode_str == as_str(mode)
        is_home == query = <<>> /\ mode_str = ALL
        accepted == {i \in 1..Len(data_arc) : filter(data_arc[i], mode_str, query, is_home)}
        key == [i \in accepted |-> prio_of(data_arc[i], query)]
    IN  sorted_orders(accepted, key)

----------------------------------------------------------------------------
(* Launcher window: ui/main_window/mod.rs, SherlockMainWindow.              *)
(* Pool indices are 1-based here.  A task is identified by what it captured; *)
(* dropping its handle removes it from the set of live tasks.               *)

\* a drop that lets the run go on
drop_task_detached(live, handle) == live

drop_task(live, handle) ==
    IF IsSome(handle) THEN live \ {Unwrap(handle)} ELSE live

\* a spawn_launcher that takes over mode, text and last_query of the window
\* it replaces
new_view_of_previous(pool) ==
    [open |-> TRUE,
     content |-> IF view.open THEN view.content ELSE <<>>,
     mode |-> IF view.open THEN view.mode ELSE Home,
     last_query |-> IF view.open THEN view.last_query ELSE None,
     deferred_render_task |-> None,
     filtered_indices |-> [i \in 1..Len(pool) |-> i],
     selected_index |-> 0]

\* the view spawn_launcher constructs, before its first filter_and_sort
new_view(pool) ==
    [open |-> TRUE,
     content |-> <<>>,
     mode |-> Home,
     last_query |-> None,
     deferred_render_task |-> None,
     filtered_indices |-> [i \in 1..Len(pool) |-> i],
     selected_index |-> 0]

\* a filter_and_sort that takes and drops the pending run before it compares
\* the query with last_query
filter_and_sort_drop_first(v, live, pool, modes) ==
    LET query0 == to_lowercase(v.content)
    IN  IF Some(query0) = v.last_query
        THEN [view |-> [v EXCEPT !.deferred_render_task = None],
              render_tasks |-> drop_task(live, v.deferred_render_task)]
        ELSE LET tr == transition_for_query(v.mode, query0, modes)
                 query == IF tr.clear THEN <<>> ELSE query0
                 run == [query |-> query, mode |-> tr.mode, data_arc |-> pool]
             IN  [view |-> [v EXCEPT !.mode = tr.mode,
                                     !.content = IF tr.clear THEN <<>> ELSE @,
                                     !.deferred_render_task = Some(run)],
                  render_tasks |-> drop_task(live, v.deferred_render_task) \cup {run}]

\* filter_and_sort up to and including the spawn of the task; yields the view
\* and the live pipeline runs
filter_and_sort(v, live, pool, modes) ==
    LET query0 == to_lowercase(v.content)
    IN  IF Some(query0) = v.last_query
        THEN [view |-> v, render_tasks |-> live]
        ELSE LET tr == transition_for_query(v.mode, query0, modes)
                 query == IF tr.clear THEN <<>> ELSE query0
                 run == [query |-> query, mode |-> tr.mode, data_arc |-> pool]
             IN  [view |-> [v EXCEPT !.mode = tr.mode,
                                     !.content = IF tr.clear THEN <<>> ELSE @,
                                     !.deferred_render_task = Some(run)],
                  render_tasks |-> drop_task(live, v.deferred_render_task) \cup {run}]

apply_results(v, results, query) ==
    [v EXCEPT !.filtered_indices = results,
              !.last_query = Some(query),
              !.selected_index = 0]

----------------------------------------------------------------------------
(* Refresh of one item: launcher/children/mod.rs, update_async.             *)
(* fetched is what the external collaborator answers:                       *)
(*   MusicLike    [ok |-> TRUE, raw |-> Option of a snapshot]; None when    *)
(*                there is no bus connection, no player or no metadata      *)
(*   WeatherLike  [ok |-> FALSE] (fetch_async is None),                      *)
(*                [ok |-> TRUE, changed |-> b, raw |-> Some(report)]         *)

\* a player snapshot: MprisData, of which the title is compared
Snapshot(title) == [title |-> title]

\* raw.as_ref().and_then(|i| i.metadata.title.as_ref())
title_of(raw) == IF IsSome(raw) THEN Unwrap(raw).title ELSE None

\* an update_async that does not compare the fetched payload with the held one
update_async_unconditional(item, fetched) ==
    CASE item.kind = "MusicLike" -> Some([item EXCEPT !.raw = fetched.raw])
      [] item.kind = "WeatherLike" ->
            IF ~fetched.ok THEN None
            ELSE Some([item EXCEPT !.raw = fetched.raw])
      [] OTHER -> None

\* an update_async whose failed weather fetch clears the item's report
update_async_failure_clears(item, fetched) ==
    CASE item.kind = "MusicLike" ->
            IF title_of(fetched.raw) = title_of(item.raw) THEN None
            ELSE Some([item EXCEPT !.raw = fetched.raw])
      [] item.kind = "WeatherLike" ->
            IF ~fetched.ok THEN Some([item EXCEPT !.raw = None])
            ELSE IF fetched.changed THEN Some([item EXCEPT !.raw = fetched.raw])
            ELSE None
      [] OTHER -> None

update_async(item, fetched) ==
    CASE item.kind = "MusicLike" ->
            IF title_of(fetched.raw) = title_of(item.raw) THEN None
            ELSE Some([item EXCEPT !.raw = fetched.raw])
      [] item.kind = "WeatherLike" ->
            IF ~fetched.ok THEN None
            ELSE IF fetched.changed THEN Some([item EXCEPT !.raw = fetched.raw])
            ELSE None
      [] OTHER -> None

Titles == {"t1"}
Reports == {"w1"}

Fetches(item) ==
    CASE item.kind = "MusicLike" ->
            {[ok |-> TRUE, raw |-> r] :
                r \in {None, Some(Snapshot(None))}
                      \cup {Some(Snapshot(Some(t))) : t \in Titles}}
      [] item.kind = "WeatherLike" ->
            {[ok |-> FALSE]}
            \cup {[ok |-> TRUE, changed |-> FALSE, raw |-> item.raw]}
            \cup {[ok |-> TRUE, changed |-> TRUE, raw |-> Some(w)] : w \in Reports}
      [] OTHER -> {[ok |-> FALSE]}

----------------------------------------------------------------------------
(* Colour conversion: utils/intent/colors.rs, ColorConverter::convert.      *)
(* The outcome of a call is a record: panic tells whether the call panicked, *)
(* value is the Option it returned otherwise.  The arithmetic of the colour *)
(* spaces is kept symbolic: a converted colour is the record of the         *)
(* conversion and its arguments.                                            *)

Returned(value) == [panic |-> FALSE, value |-> value]
Panicked == [panic |-> TRUE, value |-> None]

hsl_to_rgb(h, s, l) == [via |-> "hsl_to_rgb", of |-> <<h, s, l>>]
hsv_to_rgb(h, s, v) == [via |-> "hsv_to_rgb", of |-> <<h, s, v>>]
lab_to_rgb(l, a, b) == [via |-> "lab_to_rgb", of |-> <<l, a, b>>]

\* the first match of convert; values[0], values[1], values[2] of the "hex"
\* arm are indexed without a guard on values.len()
source_rgb(from, values) ==
    CASE from \in {"rgb", "rgba"} /\ Len(values) >= 3 ->
            Returned(Some([via |-> "rgb", of |-> <<values[1], values[2], values[3]>>]))
      [] from = "hex" ->
            IF Len(values) >= 3
            THEN Returned(Some([via |-> "rgb", of |-> <<values[1], values[2], values[3]>>]))
            ELSE Panicked
      [] from = "hsl" /\ Len(values) >= 3 ->
            Returned(Some(hsl_to_rgb(values[1], values[2], values[3])))
      [] from = "hsv" /\ Len(values) >= 3 ->
            Returned(Some(hsv_to_rgb(values[1], values[2], values[3])))
      [] from = "lab" /\ Len(values) >= 3 ->
            Returned(Some(lab_to_rgb(values[1], values[2], values[3])))
      [] OTHER -> Returned(None)

\* the second match of convert: the text in the format of the target space
format_as(to, rgb) ==
    IF to \in {"rgb", "hex", "hsl", "hsv", "lab"}
    THEN Some([format |-> to, rgb |-> rgb])
    ELSE None

convert(from, values, to) ==
    LET rgb == source_rgb(from, values)
    IN  IF rgb.panic THEN Panicked
        ELSE IF rgb.value = None THEN Returned(None)
        ELSE Returned(format_as(to, Unwrap(rgb.value)))

----------------------------------------------------------------------------
(* Activation loop and refresh orchestrator: main.rs *)

ContentAlphabet == {"a", "A", " "}

\* Loader::load_launchers: the known modes and the pool it builds
known_modes == <<AliasA>>

LoadedPool ==
    <<Item("AppLike", None, 200, "Home"),
      Item("MusicLike", None, 100, "Home"),
      Item("WeatherLike", Some(<<"a">>), 0, "Home")>>

Init ==
    /\ data = LoadedPool
    /\ current_generation = 0
    /\ active_update_task = None
    /\ update_tasks = {}
    /\ view = [open |-> FALSE]
    /\ render_tasks = {}
    /\ event = NoEvent
    /\ call = NoCall
    /\ ret = NoRet

\* a refresh batch while it is alive
Batch(this_generation, captured_generation) ==
    [this_generation |-> this_generation,
     current_generation |-> captured_generation,
     stage |-> "spawned",
     items |-> <<>>,
     updates |-> <<>>,
     failed |-> {}]

BatchOf(live, handle) == {b \in live : Some(b.this_generation) = handle}

\* a drop that lets the batch run on, as a detached task would
drop_update_task_detached(live, handle) == live

\* dropping the handle of a refresh batch cancels the batch
drop_update_task(live, handle) == live \ BatchOf(live, handle)

\* the loop body after accept(): drop the previous batch, count, replace the
\* window (its view runs filter_and_sort once), spawn the new batch
Activate ==
    /\ current_generation < MaxGen
    /\ LET this_generation == current_generation + 1
           started == filter_and_sort(new_view(data), {}, data, known_modes)
       IN  /\ event' = [kind |-> "activate",
                         dropped |-> BatchOf(update_tasks, active_update_task),
                         previous |-> IF view.open
                                      THEN Some([mode |-> view.mode,
                                                 content |-> view.content,
                                                 last_query |-> view.last_query])
                                      ELSE None,
                         before |-> data]
           /\ current_generation' = this_generation
           /\ view' = [started.view EXCEPT !.open = TRUE] @@ [window |-> this_generation]
           /\ render_tasks' = started.render_tasks
           /\ update_tasks' = drop_update_task(update_tasks, active_update_task)
                                \cup {Batch(this_generation, this_generation)}
           /\ active_update_task' = Some(this_generation)
    /\ UNCHANGED <<data, call, ret>>

AsyncIndices(items) == {i \in 1..Len(items) : items[i].async}

\* the indices of the batch for which update_async produced an update
Produced(items, updates) ==
    {i \in AsyncIndices(items) : IsSome(Unwrap(updates[i]))}

\* a splice that writes nothing unless every task produced an update
splice_all_or_nothing(items_vec, items, updates) ==
    IF \E i \in AsyncIndices(items) : ~IsSome(Unwrap(updates[i]))
    THEN items_vec
    ELSE [i \in 1..Len(items_vec) |->
             IF i \in Produced(items, updates)
             THEN Unwrap(Unwrap(updates[i])) ELSE items_vec[i]]

\* a splice that writes the k-th produced update to the k-th pool entry
splice_compacted(items_vec, items, updates) ==
    LET produced == Produced(items, updates)
        rank(i) == Cardinality({j \in produced : j <= i})
    IN  [k \in 1..Len(items_vec) |->
            IF \E i \in produced : rank(i) = k
            THEN Unwrap(Unwrap(updates[CHOOSE i \in produced : rank(i) = k]))
            ELSE items_vec[k]]

\* the for loop of data_clone.update: items_vec[idx] = update
splice(items_vec, items, updates) ==
    [i \in 1..Len(items_vec) |->
        IF i \in Produced(items, updates)
        THEN Unwrap(Unwrap(updates[i])) ELSE items_vec[i]]

\* a merge that leaves last_query as it is
forces_update_skipped(v) == v

\* view.last_query = None
forces_update(v) == [v EXCEPT !.last_query = None]

\* a merge whose run reads the pool after the first write of the for loop
Merge_rerun_mid_splice(b, updates) ==
    IF b.current_generation # b.this_generation
    THEN UNCHANGED <<data, view, render_tasks>>
    ELSE IF AsyncIndices(b.items) = {}
    THEN UNCHANGED <<data, view, render_tasks>>
    ELSE LET spliced == splice(data, b.items, updates)
             first == {i \in Produced(b.items, updates) :
                          \A j \in Produced(b.items, updates) : i <= j}
             partial == [i \in 1..Len(data) |-> IF i \in first THEN spliced[i] ELSE data[i]]
         IN  /\ data' = spliced
             /\ IF view.open /\ view.window = b.this_generation
                THEN LET forced == filter_and_sort(forces_update(view),
                                                   render_tasks, partial, known_modes)
                     IN  view' = forced.view /\ render_tasks' = forced.render_tasks
                ELSE UNCHANGED <<view, render_tasks>>

\* the merge closure the batch runs inside cx_inner.update
Merge(b, updates) ==
    IF b.current_generation # b.this_generation
    THEN UNCHANGED <<data, view, render_tasks>>
    ELSE IF AsyncIndices(b.items) = {}
    THEN UNCHANGED <<data, view, render_tasks>>
    ELSE LET spliced == splice(data, b.items, updates)
         IN  /\ data' = spliced
             /\ IF view.open /\ view.window = b.this_generation
                THEN LET forced == filter_and_sort(forces_update(view),
                                                   render_tasks, spliced, known_modes)
                     IN  view' = forced.view /\ render_tasks' = forced.render_tasks
                ELSE UNCHANGED <<view, render_tasks>>

MergeEvent(b) ==
    [kind |-> "merge",
     this_generation |-> b.this_generation,
     captured_generation |-> b.current_generation,
     loop_generation |-> current_generation,
     pool_changed |-> data' # data,
     rerun_forced |-> view' # view,
     before |-> data,
     items |-> b.items,
     updates |-> b.updates,
     failed |-> b.failed,
     last |-> IF event.kind = "fetch" THEN event.index ELSE 0,
     pending |-> render_tasks # {},
     cached |-> view.last_query = Some(to_lowercase(view.content))]

\* first poll of the batch: snapshot the pool and start one fetch per async item
BatchStart ==
    \E b \in update_tasks :
        /\ b.stage = "spawned"
        /\ IF AsyncIndices(data) = {}
           THEN /\ Merge([b EXCEPT !.items = data], <<>>)
                /\ update_tasks' = update_tasks \ {b}
                /\ event' = MergeEvent(b)
           ELSE /\ update_tasks' = (update_tasks \ {b}) \cup
                      {[b EXCEPT !.stage = "joining",
                                 !.items = data,
                                 !.updates = [i \in 1..Len(data) |-> None]]}
                /\ event' = [kind |-> "start"]
                /\ UNCHANGED <<data, view, render_tasks>>
        /\ UNCHANGED <<current_generation, active_update_task, call, ret>>

\* the fetch failed: no bus connection, no player or no metadata for a music
\* item, fetch_async gave None for a weather item
Failed(item, fetched) ==
    \/ item.kind = "MusicLike" /\ fetched.raw = None
    \/ item.kind = "WeatherLike" /\ ~fetched.ok

\* a fetch that writes its update to the pool as soon as it answers
FetchDone_write_through ==
    \E b \in update_tasks :
        /\ b.stage = "joining"
        /\ \E i \in AsyncIndices(b.items) :
              /\ b.updates[i] = None
              /\ \E fetched \in Fetches(b.items[i]) :
                    LET update == update_async(b.items[i], fetched)
                    IN  /\ update_tasks' = (update_tasks \ {b}) \cup
                               {[b EXCEPT !.updates[i] = Some(update),
                                          !.failed = IF Failed(b.items[i], fetched)
                                                     THEN @ \cup {i} ELSE @]}
                        /\ event' = [kind |-> "fetch", index |-> i, item |-> b.items[i],
                                      fetched |-> fetched, update |-> update]
                        /\ data' = IF IsSome(update)
                                   THEN [data EXCEPT ![i] = Unwrap(update)] ELSE data
        /\ UNCHANGED <<current_generation, active_update_task, view, render_tasks,
                       call, ret>>

\* one fetch of the batch answers
FetchDone ==
    \E b \in update_tasks :
        /\ b.stage = "joining"
        /\ \E i \in AsyncIndices(b.items) :
              /\ b.updates[i] = None
              /\ \E fetched \in Fetches(b.items[i]) :
                    LET update == update_async(b.items[i], fetched)
                    IN  /\ update_tasks' = (update_tasks \ {b}) \cup
                               {[b EXCEPT !.updates[i] = Some(update),
                                          !.failed = IF Failed(b.items[i], fetched)
                                                     THEN @ \cup {i} ELSE @]}
                        /\ event' = [kind |-> "fetch", index |-> i, item |-> b.items[i],
                                      fetched |-> fetched, update |-> update]
        /\ UNCHANGED <<data, current_generation, active_update_task, view, render_tasks,
                       call, ret>>

\* join_all has every result: the batch applies them and ends
BatchMerge ==
    \E b \in update_tasks :
        /\ b.stage = "joining"
        /\ \A i \in AsyncIndices(b.items) : b.updates[i] # None
        /\ Merge(b, b.updates)
        /\ update_tasks' = update_tasks \ {b}
        /\ event' = MergeEvent(b)
        /\ UNCHANGED <<current_generation, active_update_task, call, ret>>

\* what the key bindings of the text input make of its content: a typed
\* character, Backspace, DeleteAll, or a notification that leaves it as it is
Edits(content) ==
    {content, <<>>}
    \cup (IF content = <<>> THEN {} ELSE {SubSeq(content, 1, Len(content) - 1)})
    \cup (IF Len(content) < MaxContentLen
          THEN {Append(content, c) : c \in ContentAlphabet} ELSE {})

\* the observer of the text input: the text input notified a change
TextChanged ==
    /\ view.open
    /\ \E content \in Edits(view.content) :
          LET started == filter_and_sort([view EXCEPT !.content = content,
                                                      !.selected_index = 0],
                                         render_tasks, data, known_modes)
          IN  /\ view' = started.view
              /\ render_tasks' = started.render_tasks
              /\ event' = [kind |-> "text",
                            early |-> Some(to_lowercase(content)) = view.last_query,
                            dropped |-> render_tasks \ started.render_tasks # {}]
    /\ UNCHANGED <<data, current_generation, active_update_task, update_tasks, call, ret>>

\* a subscriber that leaves last_query as it is
EmptyBackspace_keeps_last_query ==
    /\ view.open
    /\ view.content = <<>>
    /\ IF view.mode # Home
       THEN LET started == filter_and_sort([view EXCEPT !.mode = Home,
                                                        !.selected_index = 0],
                                           render_tasks, data, known_modes)
            IN  view' = started.view /\ render_tasks' = started.render_tasks
       ELSE UNCHANGED <<view, render_tasks>>
    /\ event' = [kind |-> "backspace", was_home |-> view.mode = Home]
    /\ UNCHANGED <<data, current_generation, active_update_task, update_tasks, call, ret>>

\* the subscriber of EmptyBackspace: backspace in the empty text input
EmptyBackspace ==
    /\ view.open
    /\ view.content = <<>>
    /\ IF view.mode # Home
       THEN LET started == filter_and_sort([view EXCEPT !.mode = Home,
                                                        !.last_query = None,
                                                        !.selected_index = 0],
                                           render_tasks, data, known_modes)
            IN  view' = started.view /\ render_tasks' = started.render_tasks
       ELSE UNCHANGED <<view, render_tasks>>
    /\ event' = [kind |-> "backspace", was_home |-> view.mode = Home]
    /\ UNCHANGED <<data, current_generation, active_update_task, update_tasks, call, ret>>

\* the task filter_and_sort spawned runs: filter, score, sort, apply_results
RunComplete ==
    /\ view.open
    /\ \E run \in render_tasks :
          \E results \in pipeline_results(run.data_arc, run.mode, run.query) :
             /\ view' = apply_results(view, results, run.query)
             /\ render_tasks' = render_tasks \ {run}
             /\ event' = [kind |-> "commit", query |-> run.query,
                           content |-> view.content,
                           latest |-> view.deferred_render_task = Some(run)]
    /\ UNCHANGED <<data, current_generation, active_update_task, update_tasks, call, ret>>

Next ==
    \/ Activate
    \/ BatchStart
    \/ FetchDone
    \/ BatchMerge
    \/ TextChanged
    \/ EmptyBackspace
    \/ RunComplete

Spec == Init /\ [][Next]_vars

\* C1: a refresh batch that reaches its merge step after the generation
\* counter has advanced past its own generation replaces no item and forces no
\* pipeline run.
C1_StaleBatchLeavesPool ==
    (event.kind = "merge" /\ event.this_generation < event.loop_generation)
        => (~event.pool_changed /\ ~event.rerun_forced)

\* an activation found the previous batch with an update collected, and the
\* pool is still the loaded one
C1_Witness ==
    /\ event.kind = "activate"
    /\ \E b \in event.dropped :
          /\ b.this_generation < current_generation
          /\ b.stage = "joining"
          /\ \A i \in AsyncIndices(b.items) : b.updates[i] # None
          /\ \E i \in AsyncIndices(b.items) : IsSome(Unwrap(b.updates[i]))
    /\ data = LoadedPool

\* C2: apply_results commits a result only for the query derived from the
\* text input's content at that moment.
C2_CommitIsForCurrentQuery ==
    event.kind = "commit" => event.query = to_lowercase(event.content)

\* a merge that passed the generation comparison and had updates to look at
MergeAccepted ==
    /\ event.kind = "merge"
    /\ event.this_generation = event.loop_generation
    /\ AsyncIndices(event.items) # {}

\* C18: an accepted batch replaces exactly the pool entries at the indices
\* whose tasks produced an update, each by its update; the pool keeps its
\* length and order, and every other entry, the entries that are not async
\* among them, is as it was.
C18_UpdatesSplicedInPlace ==
    MergeAccepted =>
        /\ Len(data) = Len(event.before)
        /\ \A i \in 1..Len(data) :
              /\ data[i] = IF i \in Produced(event.items, event.updates)
                           THEN Unwrap(Unwrap(event.updates[i]))
                           ELSE event.before[i]
              /\ data[i].kind = event.before[i].kind
              /\ ~event.before[i].async => data[i] = event.before[i]

\* of the two async items, the task of the second entry produced an update
\* and the task of the third did not
C18_Witness ==
    /\ MergeAccepted
    /\ Produced(event.items, event.updates) = {2}
    /\ data[2] # event.before[2]
    /\ data[3] = event.before[3]

\* C19: after an accepted batch has changed the pool, a pipeline run on the
\* changed pool is pending, also when last_query was the query of the text
\* input's content.
C19_ChangedPoolForcesRun ==
    (MergeAccepted /\ event.pool_changed) =>
        /\ IsSome(view.deferred_render_task)
        /\ Unwrap(view.deferred_render_task) \in render_tasks
        /\ Unwrap(view.deferred_render_task).data_arc = data

\* the pool changed while last_query was the query of the content
C19_Witness ==
    /\ MergeAccepted
    /\ event.pool_changed
    /\ event.cached
    /\ Unwrap(view.deferred_render_task).data_arc = data

\* C21: the updates the fetches of a batch produced are written to the pool
\* also when another fetch of the batch failed.
C21_FailureIsIsolated ==
    (MergeAccepted /\ event.failed # {}) =>
        \A i \in AsyncIndices(event.items) :
            IsSome(Unwrap(event.updates[i])) => data[i] = Unwrap(Unwrap(event.updates[i]))

\* the weather fetch failed and the music fetch brought a new title, which
\* is in the pool
C21_Witness ==
    /\ MergeAccepted
    /\ event.failed = {3}
    /\ IsSome(Unwrap(event.updates[2]))
    /\ data[2] = Unwrap(Unwrap(event.updates[2]))
    /\ data[2] # event.before[2]

\* C22: at most one pipeline run of the window is pending, it is the run the
\* window started last, and only that run commits: a run that was pending
\* when filter_and_sort started another one never commits.
C22_OnePendingRun ==
    /\ Cardinality(render_tasks) <= 1
    /\ \A run \in render_tasks : view.deferred_render_task = Some(run)
    /\ event.kind = "commit" => event.latest

\* a change of the text input started a run while another one was pending
C22_Witness ==
    /\ event.kind = "text"
    /\ event.dropped
    /\ Cardinality(render_tasks) = 1

\* C23: an activation drops the batch of the previous activation, so that at
\* most one refresh batch is alive, and it is the batch of the latest
\* activation.
C23_OneBatchOfLatestActivation ==
    /\ Cardinality(update_tasks) <= 1
    /\ \A b \in update_tasks :
          /\ b.this_generation = current_generation
          /\ active_update_task = Some(b.this_generation)
    /\ event.kind = "activate" =>
          \A b \in event.dropped :
              b.this_generation < current_generation /\ b \notin update_tasks

\* an activation dropped the batch of the activation before it while its
\* fetches were still out
C23_Witness ==
    /\ event.kind = "activate"
    /\ \E b \in event.dropped :
          b.stage = "joining" /\ \E i \in AsyncIndices(b.items) : b.updates[i] = None
    /\ Cardinality(update_tasks) = 1

\* C24: every pending run holds a snapshot of the whole pool as it is: a
\* merge leaves no run pending on the pool it replaced, and no run holds a
\* pool to which only part of a batch's updates is applied.
C24_RunsHoldWholePool ==
    \A run \in render_tasks : run.data_arc = data

\* a batch with two updates changed the pool while a run was pending
C24_Witness ==
    /\ MergeAccepted
    /\ event.pool_changed
    /\ event.pending
    /\ Cardinality(Produced(event.items, event.updates)) = 2
    /\ \E run \in render_tasks : run.data_arc = data /\ run.data_arc # event.before

\* the fetched payload is unchanged: for a music item the title is the title
\* of the held snapshot, for a weather item the data came from the cache
Unchanged(item, fetched) ==
    \/ item.kind = "MusicLike" /\ title_of(fetched.raw) = title_of(item.raw)
    \/ item.kind = "WeatherLike" /\ fetched.ok /\ ~fetched.changed

\* C30: a fetch whose payload is unchanged produces no update, and a batch
\* none of whose tasks produced an update leaves the pool as it was.
C30_UnchangedProducesNoUpdate ==
    /\ (event.kind = "fetch" /\ Unchanged(event.item, event.fetched))
          => event.update = None
    /\ (MergeAccepted /\ Produced(event.items, event.updates) = {})
          => data = event.before

\* a batch in which the music fetch brought the title already held and the
\* weather data came from the cache
C30_Witness ==
    /\ MergeAccepted
    /\ Produced(event.items, event.updates) = {}
    /\ event.failed = {}
    /\ title_of(event.before[2].raw) # None
    /\ data = event.before

\* C20 as stated: a fetch that fails yields no update.
C20_FailedFetchNoUpdate ==
    (event.kind = "fetch" /\ Failed(event.item, event.fetched))
        => event.update = None

\* C20: a failed weather fetch yields no update; a failed music fetch yields
\* none when the item's snapshot has no title, and otherwise yields the item
\* without its snapshot.
C20_FailedFetchKeepsOrClears ==
    (event.kind = "fetch" /\ Failed(event.item, event.fetched))
        => event.update =
              IF event.item.kind = "MusicLike" /\ title_of(event.item.raw) # None
              THEN Some([event.item EXCEPT !.raw = None])
              ELSE None

\* a failed fetch for a weather item that holds a report
C20_Witness ==
    /\ event.kind = "fetch"
    /\ event.item.kind = "WeatherLike"
    /\ IsSome(event.item.raw)
    /\ ~event.fetched.ok
    /\ event.update = None

\* C31: while a task of a batch is out, or the batch has not merged yet, the
\* pool is the snapshot the batch took, so that none of its updates is in the
\* pool; the merge has the result of every task and leaves the pool that the
\* results determine index by index, whichever task answered first.
C31_BatchAppliedWhole ==
    /\ \A b \in update_tasks : b.stage = "joining" => data = b.items
    /\ MergeAccepted =>
          /\ \A i \in AsyncIndices(event.items) : event.updates[i] # None
          /\ \A i \in 1..Len(data) :
                data[i] = IF i \in AsyncIndices(event.items) /\ IsSome(Unwrap(event.updates[i]))
                          THEN Unwrap(Unwrap(event.updates[i]))
                          ELSE event.before[i]

\* both tasks produced an update, the task of the third entry before the task
\* of the second, whose answer was the last step before the merge, and both
\* updates are in the pool
C31_Witness ==
    /\ MergeAccepted
    /\ event.last = 2
    /\ Produced(event.items, event.updates) = {2, 3}
    /\ data[2] # event.before[2]
    /\ data[3] # event.before[3]

\* C32: a result that commits while the mode is an alias mode holds only
\* items whose alias is the mode's short code; a result that commits in Home
\* or Search holds only items whose alias is "all" or whose tier is at least 1.
C32_CommittedInLane ==
    event.kind = "commit" =>
        \A k \in 1..Len(view.filtered_indices) :
            LET item == data[view.filtered_indices[k]]
            IN  IF view.mode.kind = "Alias"
                THEN item.alias = Some(view.mode.short)
                ELSE item.alias = Some(ALL) \/ priority(item) \div 100 >= 1

\* in the alias mode "a" a result with the weather item, whose alias is "a",
\* committed
C32_Witness ==
    /\ event.kind = "commit"
    /\ view.mode = AliasA
    /\ view.filtered_indices = <<3>>
    /\ data[3].alias = Some(<<"a">>)

\* C33: the window an activation opens is in mode Home with an empty text
\* input and no last_query, whatever the window it replaces held, and the pool
\* is the pool as the activation found it.
C33_ActivationStartsAfresh ==
    event.kind = "activate" =>
        /\ view.open
        /\ view.mode = Home
        /\ view.content = <<>>
        /\ view.last_query = None
        /\ data = event.before

\* the replaced window was in the alias mode "a" with a committed query, and
\* the pool holds a title an earlier batch fetched
C33_Witness ==
    /\ event.kind = "activate"
    /\ IsSome(event.previous)
    /\ Unwrap(event.previous).mode = AliasA
    /\ IsSome(Unwrap(event.previous).last_query)
    /\ title_of(data[2].raw) # None
    /\ data # LoadedPool
    /\ view.mode = Home

\* C34: whenever no pipeline run is pending, mode Home goes with an empty
\* text input and mode Search with a text input that is not empty.
C34_ModeAgreesWithText ==
    (view.open /\ render_tasks = {}) =>
        /\ view.mode = Home => view.content = <<>>
        /\ view.mode = Search => view.content # <<>>

\* The spawned tasks are scheduled fairly: a pending run, a batch that can
\* start or merge and a fetch that is out are not postponed for ever.
SpecLive ==
    /\ Init /\ [][Next]_vars
    /\ WF_vars(RunComplete)
    /\ WF_vars(BatchStart)
    /\ WF_vars(FetchDone)
    /\ WF_vars(BatchMerge)

\* a step of the user: a change of the text input, an EmptyBackspace, an
\* activation
UserStep == TextChanged \/ EmptyBackspace \/ Activate

\* no run is pending and the committed result is a result of the pipeline
\* for the pool, the mode and the content of the text input as they are
Settled ==
    view.open =>
        /\ render_tasks = {}
        /\ view.filtered_indices \in
              pipeline_results(data, view.mode, to_lowercase(view.content))

\* C35: if from some point on the text input does not change and no session
\* is activated, then from some point on no run is pending and the committed
\* result is the pipeline's result for the current pool, mode and content.
C35_EventuallySettled ==
    <>[][~UserStep]_vars => <>[]Settled

\* C36: the run a merge forces leaves the mode and the text input as they
\* are: for the text as it stands the mode transition has been applied
\* already, and applying it again changes nothing and clears nothing.
C36_ForcedRunKeepsModeAndText ==
    [][(event'.kind = "merge" /\ view.open)
          => (view'.mode = view.mode /\ view'.content = view.content)]_vars

\* C37: when the lowercased content of the text input is last_query,
\* filter_and_sort changes nothing: the mode, last_query and the committed
\* result stay, the handle of the pending run stays, and the pending runs are
\* the same.  The content and the selection are what the observer set before
\* it called filter_and_sort.
C37_EarlyReturnIsNoOp ==
    [][(event'.kind = "text" /\ event'.early)
          => /\ view' = [view EXCEPT !.content = view'.content,
                                     !.selected_index = view'.selected_index]
             /\ render_tasks' = render_tasks]_vars

\* the text input came back to last_query while the run for another query
\* was pending, and that run is still pending
C37_Witness ==
    /\ event.kind = "text"
    /\ event.early
    /\ view.last_query = Some(to_lowercase(view.content))
    /\ \E run \in render_tasks :
          /\ view.deferred_render_task = Some(run)
          /\ run.query # to_lowercase(view.content)

\* C38: the current_generation a batch compares at its merge is the copy it
\* captured when it was spawned, which is its own this_generation, so the
\* comparison never discards; a batch that merges is the batch of the latest
\* activation, because an activation drops the batch before it.
C38_GuardNeverDiscards ==
    /\ \A b \in update_tasks : b.current_generation = b.this_generation
    /\ event.kind = "merge" =>
          /\ event.captured_generation = event.this_generation
          /\ event.this_generation = event.loop_generation

\* the batch of the second activation merged and changed the pool
C38_Witness ==
    /\ MergeAccepted
    /\ event.this_generation = 2
    /\ event.captured_generation = 2
    /\ event.pool_changed

\* C39: an EmptyBackspace in a mode other than Home leaves the window in mode
\* Home with no last_query and the selection on the first entry, and the one
\* pending run is a new run for the empty query in mode Home on the pool as it
\* is; an EmptyBackspace in mode Home changes neither the window nor the
\* pending runs.
C39_EmptyBackspaceGoesHome ==
    [][event'.kind = "backspace" =>
          IF view.mode = Home
          THEN view' = view /\ render_tasks' = render_tasks /\ data' = data
          ELSE LET run == [query |-> <<>>, mode |-> Home, data_arc |-> data]
               IN  /\ view'.mode = Home
                   /\ view'.last_query = None
                   /\ view'.selected_index = 0
                   /\ view'.deferred_render_task = Some(run)
                   /\ render_tasks' = {run}]_vars

\* an EmptyBackspace in the alias mode, whose result for the empty query had
\* committed, started a run in mode Home
C39_Witness ==
    /\ event.kind = "backspace"
    /\ ~event.was_home
    /\ view.mode = Home
    /\ view.last_query = None
    /\ view.filtered_indices = <<3>>
    /\ Cardinality(render_tasks) = 1

\* C40: the committed result is a sequence of indices of the pool in which no
\* index occurs twice.
C40_ResultHasValidDistinctIndices ==
    view.open =>
        /\ \A k \in 1..Len(view.filtered_indices) :
              view.filtered_indices[k] \in 1..Len(data)
        /\ \A j, k \in 1..Len(view.filtered_indices) :
              j # k => view.filtered_indices[j] # view.filtered_indices[k]

\* the run a merge forced committed a result of two indices on the changed pool
C40_Witness ==
    /\ event.kind = "commit"
    /\ data # LoadedPool
    /\ Len(view.filtered_indices) = 2
    /\ view.filtered_indices[1] # view.filtered_indices[2]

----------------------------------------------------------------------------
(* Function-level specification of the matcher: a pattern is fixed, the     *)
(* target grows one byte at a time and fuzzy_match is applied to it.        *)

MatcherAlphabet == {"a", "b", "c"}


SysIdle ==
    /\ data = <<>>
    /\ current_generation = 0
    /\ active_update_task = None
    /\ update_tasks = {}
    /\ view = [open |-> FALSE]
    /\ render_tasks = {}
    /\ event = NoEvent

MatcherCall(t, p) == [fn |-> "fuzzy_match", target |-> t, pattern |-> p]

InitMatcher ==
    /\ SysIdle
    /\ \E p \in Strings(MatcherAlphabet, MaxPatternLen) :
          /\ call = MatcherCall(<<>>, p)
          /\ ret = Ret(fuzzy_match(<<>>, p))

ExtendTarget ==
    /\ call.fn = "fuzzy_match"
    /\ Len(call.target) < MaxTargetLen
    /\ \E c \in MatcherAlphabet :
          LET t == Append(call.target, c)
          IN  /\ call' = MatcherCall(t, call.pattern)
              /\ ret' = Ret(fuzzy_match(t, call.pattern))
    /\ UNCHANGED sysvars

NextMatcher == ExtendTarget

SpecMatcher == InitMatcher /\ [][NextMatcher]_vars

Contains(t, p) ==
    \E s \in 0..(Len(t) - Len(p)) : SubSeq(t, s + 1, s + Len(p)) = p

\* p[k..] can be placed after position prev with every step at most gap long
RECURSIVE EmbedsWithin(_, _, _, _, _)
EmbedsWithin(t, p, k, prev, gap) ==
    \/ k > Len(p)
    \/ \E j \in (prev + 1)..Min(prev + gap, Len(t)) :
          t[j] = p[k] /\ EmbedsWithin(t, p, k + 1, j, gap)

BoundedGapSubsequence(t, p) ==
    \E a \in 1..Len(t) : t[a] = p[1] /\ EmbedsWithin(t, p, 2, a, 5)

\* as above, but every step goes to the first occurrence of the character
RECURSIVE FirstOccurrenceWalk(_, _, _, _, _)
FirstOccurrenceWalk(t, p, k, prev, gap) ==
    \/ k > Len(p)
    \/ \E j \in (prev + 1)..Min(prev + gap, Len(t)) :
          /\ t[j] = p[k]
          /\ \A i \in (prev + 1)..(j - 1) : t[i] # p[k]
          /\ FirstOccurrenceWalk(t, p, k + 1, j, gap)

FirstOccurrenceSubsequence(t, p) ==
    \E a \in 1..Len(t) : t[a] = p[1] /\ FirstOccurrenceWalk(t, p, 2, a, 5)

\* C8: a target that contains the pattern as a contiguous substring matches.
C8_SubstringMatches ==
    (call.fn = "fuzzy_match" /\ Contains(call.target, call.pattern)) => ret.val = TRUE

\* the substring is found although the first anchor fails
C8_Witness ==
    /\ call.fn = "fuzzy_match"
    /\ Len(call.pattern) >= 2
    /\ Contains(call.target, call.pattern)
    /\ ~fuzzy_match_first_anchor(call.target, call.pattern)
    /\ ret.val = TRUE

\* C9 as stated: any subsequence occurrence with gaps of at most 5 matches.
C9_AnyBoundedGapMatches ==
    (call.fn = "fuzzy_match" /\ call.pattern # <<>>
        /\ BoundedGapSubsequence(call.target, call.pattern)) => ret.val = TRUE

\* C9 amended: a subsequence occurrence in which every matched position after
\* the first is the first occurrence of its character after the previous
\* matched position, and at most 5 beyond it, matches.
C9_FirstOccurrenceMatches ==
    (call.fn = "fuzzy_match" /\ call.pattern # <<>>
        /\ FirstOccurrenceSubsequence(call.target, call.pattern)) => ret.val = TRUE

\* "abc" in "acbac", the shape of "a1b1c"
C9_Witness ==
    /\ call = MatcherCall(<<"a", "c", "b", "a", "c">>, <<"a", "b", "c">>)
    /\ ret.val = TRUE

\* C10: a match of a non-empty pattern implies a subsequence occurrence at
\* strictly increasing positions, each at most 5 after the previous one.
C10_MatchImpliesBoundedGap ==
    (call.fn = "fuzzy_match" /\ call.pattern # <<>> /\ ret.val = TRUE)
        => BoundedGapSubsequence(call.target, call.pattern)

\* a match that uses a gap of exactly 5
C10_Witness ==
    /\ call = MatcherCall(<<"a", "c", "c", "c", "c", "b">>, <<"a", "b">>)
    /\ ret.val = TRUE

\* C11: the empty pattern matches every target, the empty one included, and
\* no non-empty pattern matches the empty target.
C11_EmptyPatternAndTarget ==
    call.fn = "fuzzy_match" =>
        /\ (call.pattern = <<>> => ret.val = TRUE)
        /\ (call.pattern # <<>> /\ call.target = <<>> => ret.val = FALSE)

\* the empty pattern against the empty target
C11_Witness ==
    /\ call = MatcherCall(<<>>, <<>>)
    /\ ret.val = TRUE

\* C28: a non-empty pattern matches exactly when, from some occurrence of its
\* first byte, every next byte is found at its first occurrence after the
\* previous matched position and at most 5 beyond it.
C28_MatchIffGreedyWalk ==
    (call.fn = "fuzzy_match" /\ call.pattern # <<>>)
        => (ret.val = FirstOccurrenceSubsequence(call.target, call.pattern))

\* "abc" does not match "abbbbbbc": the walk stops at the first "b" and "c"
\* is out of its window, although a later "b" would do
C28_Witness ==
    /\ call = MatcherCall(<<"a", "b", "b", "b", "b", "b", "b", "c">>, <<"a", "b", "c">>)
    /\ ret.val = FALSE
    /\ BoundedGapSubsequence(call.target, call.pattern)

----------------------------------------------------------------------------
(* Function-level specification of the mode machine: transition_for_query   *)
(* on any mode, query and list of known modes, and filter_and_sort on a     *)
(* view in any mode with any content.                                       *)

ModeAlphabet == {"a", "A", "b", " "}


ModeUniverse == {Home, Search, AliasA, AliasAb, Alias(<<"b">>, "Category")}

ModeLists == {<<>>, <<AliasA>>, <<AliasAb, AliasA>>, <<AliasUpperA, AliasA>>,
              <<Home, Search, AliasA>>, <<AliasSpaced>>}

InitMode ==
    /\ SysIdle
    /\ ret = NoRet
    /\ \E mode \in ModeUniverse, modes \in ModeLists :
          \/ \E query \in Strings(ModeAlphabet, MaxQueryLen) :
                call = [fn |-> "transition_for_query", mode |-> mode,
                        query |-> query, modes |-> modes]
          \/ \E content \in Strings(ModeAlphabet, MaxQueryLen),
                last_query \in {None, Some(<<>>)} :
                call = [fn |-> "filter_and_sort", modes |-> modes,
                        view |-> [new_view(<<>>) EXCEPT !.mode = mode,
                                                        !.content = content,
                                                        !.last_query = last_query]]

ApplyTransition ==
    /\ call.fn = "transition_for_query"
    /\ ret = NoRet
    /\ ret' = Ret(transition_for_query(call.mode, call.query, call.modes))
    /\ UNCHANGED <<sysvars, call>>

ApplyFilterAndSort ==
    /\ call.fn = "filter_and_sort"
    /\ ret = NoRet
    /\ ret' = Ret(filter_and_sort(call.view, {}, <<>>, call.modes))
    /\ UNCHANGED <<sysvars, call>>

NextMode == ApplyTransition \/ ApplyFilterAndSort

SpecMode == InitMode /\ [][NextMode]_vars

Transitioned == call.fn = "transition_for_query" /\ ret.done

\* C5: Search with an empty query goes to Home, Home with a non-empty query
\* goes to Search, both without asking to clear the query.
C5_SearchHomeTransitions ==
    Transitioned =>
        /\ (call.mode = Search /\ call.query = <<>>)
              => ret.val = [mode |-> Home, clear |-> FALSE]
        /\ (call.mode = Home /\ call.query # <<>>)
              => ret.val = [mode |-> Search, clear |-> FALSE]

\* Home with a query that names a known alias still goes to Search
C5_Witness ==
    /\ Transitioned
    /\ call.mode = Home
    /\ call.query = <<"a", " ">>
    /\ call.modes = <<AliasA>>
    /\ ret.val.mode = Search

\* the known Alias modes whose short code equals s, ignoring ASCII case
MatchingAliases(modes, s) ==
    {modes[i] : i \in {j \in 1..Len(modes) :
        modes[j].kind = "Alias" /\ to_lowercase(modes[j].short) = to_lowercase(s)}}

OneTrailingSpace(q) ==
    /\ Len(q) >= 1
    /\ q[Len(q)] = " "
    /\ (Len(q) >= 2 => q[Len(q) - 1] # " ")

BeforeLast(q) == SubSeq(q, 1, Len(q) - 1)

\* q is the short code of a known alias, in any case, followed by one space
NamesAlias(modes, q) ==
    /\ Len(q) >= 1
    /\ q[Len(q)] = " "
    /\ MatchingAliases(modes, BeforeLast(q)) # {}

\* C6: in Search or an Alias mode a non-empty query that ends in one space
\* and names a known alias before it moves to that alias and asks to clear
\* the query; the caller then empties the text input and starts the run with
\* the empty query.  Without a matching alias the mode stays and nothing is
\* cleared.
C6_AliasEntry ==
    /\ (Transitioned /\ call.mode.kind \in {"Search", "Alias"} /\ call.query # <<>>) =>
          /\ (OneTrailingSpace(call.query) /\ NamesAlias(call.modes, call.query))
                => (/\ ret.val.mode \in MatchingAliases(call.modes, BeforeLast(call.query))
                    /\ ret.val.clear = TRUE)
          /\ ~NamesAlias(call.modes, call.query)
                => ret.val = [mode |-> call.mode, clear |-> FALSE]
    /\ (call.fn = "filter_and_sort" /\ ret.done
          /\ call.view.mode.kind \in {"Search", "Alias"}
          /\ OneTrailingSpace(call.view.content)
          /\ NamesAlias(call.modes, call.view.content)) =>
          /\ ret.val.view.mode \in MatchingAliases(call.modes, BeforeLast(call.view.content))
          /\ ret.val.view.content = <<>>
          /\ IsSome(ret.val.view.deferred_render_task)
          /\ Unwrap(ret.val.view.deferred_render_task).query = <<>>
          /\ Unwrap(ret.val.view.deferred_render_task).mode = ret.val.view.mode

\* typing "Ab " in Search enters the alias whose short code is "aB"
C6_Witness ==
    /\ call.fn = "filter_and_sort"
    /\ ret.done
    /\ call.view.mode = Search
    /\ call.view.content = <<"A", "b", " ">>
    /\ ret.val.view.mode = AliasAb
    /\ ret.val.view.content = <<>>

\* C7: every other case leaves the mode alone and does not ask to clear.
C7_NoOtherTransition ==
    Transitioned =>
        /\ (call.mode = Home /\ call.query = <<>>)
              => ret.val = [mode |-> Home, clear |-> FALSE]
        /\ (call.mode.kind = "Alias" /\ call.query = <<>>)
              => ret.val = [mode |-> call.mode, clear |-> FALSE]
        /\ (call.mode.kind \in {"Search", "Alias"} /\ call.query # <<>>
              /\ ~NamesAlias(call.modes, call.query))
              => ret.val = [mode |-> call.mode, clear |-> FALSE]

\* an Alias mode survives the query becoming empty
C7_Witness ==
    /\ Transitioned
    /\ call.mode = AliasA
    /\ call.query = <<>>
    /\ call.modes = <<AliasA>>
    /\ ret.val = [mode |-> AliasA, clear |-> FALSE]

----------------------------------------------------------------------------
(* Function-level specification of the pipeline: the task of one run on any *)
(* pool of one catalogue item, alone or behind an ordinary application, in  *)
(* any mode and for any query.                                              *)

FilterAlphabet == {"a", "b", " "}

PlainApp == Item("AppLike", None, 200, "Home")

Catalogue ==
    LET base == {Item(kind, alias, prio, home) :
                    kind \in {"AppLike", "CalcLike", "MusicLike", "WeatherLike"},
                    alias \in {None, Some(ALL), Some(<<"a">>)},
                    prio \in {0, 50, 100, 200, 234},
                    home \in HomeTypes}
    IN  base \cup {[it EXCEPT !.raw = Some(Snapshot(Some("t1")))] : it \in {b \in base : b.kind = "MusicLike"}}
             \cup {[it EXCEPT !.use_keywords = FALSE, !.name = n] :
                      it \in {b \in base : b.kind = "AppLike" /\ b.home = "Home"},
                      n \in {None, Some(<<"b">>)}}

PipelineModes == {Home, Search, AliasA, Alias(<<"b">>, "Category")}

InitPipeline ==
    /\ SysIdle
    /\ ret = NoRet
    /\ \E item \in Catalogue, mode \in PipelineModes,
          query \in Strings(FilterAlphabet, MaxContentLen) :
          \E pool \in {<<item>>, <<PlainApp, item>>} :
             call = [fn |-> "pipeline", data_arc |-> pool, mode |-> mode, query |-> query]

ApplyPipeline ==
    /\ call.fn = "pipeline"
    /\ ret = NoRet
    /\ \E results \in pipeline_results(call.data_arc, call.mode, call.query) :
          ret' = Ret(results)
    /\ UNCHANGED <<sysvars, call>>

NextPipeline == ApplyPipeline

SpecPipeline == InitPipeline /\ [][NextPipeline]_vars

Range(f) == {f[i] : i \in DOMAIN f}

Tier(item) == item.priority \div 100

LaneMismatch(item, lane) == item.alias # Some(lane)

HomeView(lane, query) == lane = ALL /\ query = <<>>

Piped == call.fn = "pipeline" /\ ret.done

\* C3 as stated: a Persist item is in the result of every run.
C3_PersistAlwaysPresent ==
    Piped => \A i \in 1..Len(call.data_arc) :
                call.data_arc[i].home = "Persist" => i \in Range(ret.val)

\* C3 amended: a Persist item is in the result of every run whose lane does
\* not reject it under rule 1 (the lane equals the item's alias lane, or the
\* lane is "all" and the item's tier is at least 1), whatever the query.
C3_PersistPresentInLane ==
    Piped => \A i \in 1..Len(call.data_arc) :
                LET item == call.data_arc[i]
                    lane == as_str(call.mode)
                IN  (/\ item.home = "Persist"
                     /\ (~LaneMismatch(item, lane) \/ (lane = ALL /\ Tier(item) >= 1)))
                        => i \in Range(ret.val)

\* a Persist calculator is shown in its alias lane for a query it cannot evaluate
C3_Witness ==
    /\ Piped
    /\ call.mode = AliasA
    /\ call.query = <<"b">>
    /\ call.data_arc = <<Item("CalcLike", Some(<<"a">>), 0, "Persist")>>
    /\ ret.val = <<1>>

\* the verdict of rule k on an item, None when the rule does not decide
RuleVerdict(k, item, lane, query) ==
    CASE k = 1 -> IF LaneMismatch(item, lane) /\ ~(lane = ALL /\ Tier(item) >= 1)
                  THEN Some(FALSE) ELSE None
      [] k = 2 -> IF item.home = "Persist" THEN Some(TRUE) ELSE None
      [] k = 3 -> based_show(item, query)
      [] k = 4 -> IF item.home = "OnlyHome" /\ ~HomeView(lane, query)
                  THEN Some(FALSE) ELSE None
      [] k = 5 -> IF item.home = "Search" /\ HomeView(lane, query)
                  THEN Some(FALSE) ELSE None
      [] k = 6 -> Some(fuzzy_match(search(item), query))

FirstDecisive(item, lane, query) ==
    CHOOSE k \in 1..6 :
        /\ IsSome(RuleVerdict(k, item, lane, query))
        /\ \A j \in 1..(k - 1) : ~IsSome(RuleVerdict(j, item, lane, query))

SixRulesAccept(item, lane, query) ==
    Unwrap(RuleVerdict(FirstDecisive(item, lane, query), item, lane, query))

\* C4: the result holds exactly the indices whose item the six rules accept,
\* the first decisive rule winning.
C4_SixRules ==
    Piped =>
        /\ Range(ret.val) = {i \in 1..Len(call.data_arc) :
                SixRulesAccept(call.data_arc[i], as_str(call.mode), call.query)}
        /\ Len(ret.val) = Cardinality(Range(ret.val))

\* rule 6 rejects the application and rule 3 accepts the calculator
C4_Witness ==
    /\ Piped
    /\ Len(call.data_arc) = 2
    /\ call.data_arc[2].kind = "CalcLike"
    /\ call.query = <<"b", "a">>
    /\ FirstDecisive(call.data_arc[1], as_str(call.mode), call.query) = 6
    /\ FirstDecisive(call.data_arc[2], as_str(call.mode), call.query) = 3
    /\ ret.val = <<2>>

\* the key the run computed for the pool entry at index i
RunKey(i) == prio_of(call.data_arc[i], call.query)

\* C15 as stated: accepted items with equal keys stand in ascending pool
\* order, so the result is the one stable order of the accepted indices and a
\* second run on the same pool, mode and query gives the same sequence.
C15_TiesInPoolOrder ==
    Piped => \A i, j \in DOMAIN ret.val :
                (i < j /\ RunKey(ret.val[i]) = RunKey(ret.val[j]))
                    => ret.val[i] < ret.val[j]

\* C16: the keys of consecutive indices of a result, computed on the pool
\* snapshot and the query of the run, never decrease.
C16_ResultSortedByKey ==
    Piped => \A i \in DOMAIN ret.val :
                i < Len(ret.val) => key_le(RunKey(ret.val[i]), RunKey(ret.val[i + 1]))

\* two accepted items of different tiers, the second of the pool ranked first
C16_Witness ==
    /\ Piped
    /\ ret.val = <<2, 1>>
    /\ RunKey(2).int < RunKey(1).int

\* the text the run is to score the pool entry at index i on: the name of the
\* launcher for an App item without keywords, the search text otherwise
ScoredText(i) ==
    LET item == call.data_arc[i]
    IN  IF item.kind = "AppLike" /\ ~item.use_keywords
        THEN (IF item.name = None THEN <<>> ELSE Unwrap(item.name))
        ELSE search(item)

ScoredKey(i) == make_prio(call.data_arc[i].priority, call.query, ScoredText(i))

----------------------------------------------------------------------------
(* Function-level specification of the scorer: a priority and a query are   *)
(* fixed, the text grows one byte at a time and make_prio is applied to it. *)

ScoreAlphabet == {"a", "b", ";"}

\* priorities in hundredths: below 1, one tier without and with a usage
\* fraction, and around 2^18
ScorerPrios == {0, 200, 299, 26214300, 26214400}

ScorerCall(prio, query, text) ==
    [fn |-> "make_prio", prio |-> prio, query |-> query, match_in |-> text]

ScorerRet(prio, query, text) ==
    Ret([score |-> search_score(query, text),
         key |-> make_prio(prio, query, text)])

InitScorer ==
    /\ SysIdle
    /\ \E prio \in ScorerPrios, query \in Strings(ScoreAlphabet, MaxContentLen) :
          /\ call = ScorerCall(prio, query, <<>>)
          /\ ret = ScorerRet(prio, query, <<>>)

ExtendText ==
    /\ call.fn = "make_prio"
    /\ Len(call.match_in) < MaxTextLen
    /\ \E c \in ScoreAlphabet :
          LET t == Append(call.match_in, c)
          IN  /\ call' = ScorerCall(call.prio, call.query, t)
              /\ ret' = ScorerRet(call.prio, call.query, t)
    /\ UNCHANGED sysvars

NextScorer == ExtendText

SpecScorer == InitScorer /\ [][NextScorer]_vars

Scored == call.fn = "make_prio"

Fields(text) == {split(text, ";")[i] : i \in 1..Len(split(text, ";"))}

\* C12: for a non-empty query, a text one of whose fields equals the query
\* scores 0, whatever its other fields and wherever the field stands.
C12_ExactFieldScoresZero ==
    (Scored /\ call.query # <<>> /\ call.query \in Fields(call.match_in))
        => ret.val.score = 0

\* the query is the second field, after a field that is one edit away
C12_Witness ==
    /\ Scored
    /\ call.query = <<"a">>
    /\ call.match_in = <<"b", ";", "a">>
    /\ ret.val.score = 0

\* C13: the empty query scores 0.8 on every text, the empty text and texts
\* with empty fields included.
C13_EmptyQueryConstant ==
    (Scored /\ call.query = <<>>) => ret.val.score = (8 * Scale) \div 10

\* the empty query on a text whose first field is empty
C13_Witness ==
    /\ Scored
    /\ call.query = <<>>
    /\ call.match_in = <<";", "a">>
    /\ ret.val.score = (8 * Scale) \div 10

SingleField(text) == \A i \in 1..Len(text) : text[i] # ";"

\* a field the scorer hands to levenshtein
InBand(query, field) ==
    /\ field # query
    /\ ~starts_with(field, query)
    /\ abs(Len(field) - Len(query)) < 4

\* C14: among single-field texts of one length that the query neither equals
\* nor prefixes and that lie in the band, a larger edit distance to the query
\* never gives a smaller score.
C14_ScoreMonotoneInDistance ==
    (Scored /\ SingleField(call.match_in) /\ InBand(call.query, call.match_in))
        => \A other \in [1..Len(call.match_in) -> ScoreAlphabet \ {";"}] :
              (InBand(call.query, other)
                 /\ levenshtein(call.query, other)
                        > levenshtein(call.query, call.match_in))
                  => search_score(call.query, other) >= ret.val.score

\* a field one edit from the query, while a field of the same length is two
\* edits away
C14_Witness ==
    /\ Scored
    /\ call.query = <<"a", "a">>
    /\ call.match_in = <<"a", "b">>
    /\ ret.val.score = Scale \div 2
    /\ levenshtein(call.query, <<"b", "b">>) = 2

key_lt(a, b) == key_le(a, b) /\ a # b

\* C26 as stated: of two texts scored for the same query with priorities of
\* one tier, the one with the strictly smaller score has the strictly smaller
\* key, whatever the fractions of the priorities.
C26_SimilarityDominates ==
    Scored => \A prio \in ScorerPrios, text \in Strings(ScoreAlphabet, MaxTextLen) :
                 (prio \div 100 = call.prio \div 100
                    /\ ret.val.score < search_score(call.query, text))
                     => key_lt(ret.val.key, make_prio(prio, call.query, text))

\* the fields of a text that the scorer looks at
NonEmptyFields(text) == Fields(text) \ {<<>>}

MinOf(S) == CHOOSE x \in S : \A y \in S : x <= y

\* C27: the score lies in [0, 1]; for a non-empty query a field equal to the
\* query scores 0, a field the query properly prefixes scores in [0.1, 0.2),
\* a field scored by edit distance scores in [0.2, 1], and the score of the
\* text is the least score of its non-empty fields.
C27_ScoreBands ==
    Scored =>
        /\ 0 <= ret.val.score /\ ret.val.score <= Scale
        /\ call.query # <<>> =>
              /\ \A f \in NonEmptyFields(call.match_in) :
                    LET fs == search_score(call.query, f)
                    IN  /\ f = call.query => fs = 0
                        /\ (f # call.query /\ starts_with(f, call.query))
                              => (Scale \div 10 <= fs /\ fs < Scale \div 5)
                        /\ InBand(call.query, f) => (Scale \div 5 <= fs /\ fs <= Scale)
              /\ ret.val.score =
                    MinOf({search_score(call.query, f) : f \in NonEmptyFields(call.match_in)}
                          \cup {Scale})

\* a text with a field one edit away and a field the query prefixes
C27_Witness ==
    /\ Scored
    /\ call.query = <<"a">>
    /\ call.match_in = <<"b", ";", "a", "b">>
    /\ ret.val.score = (15 * Scale) \div 100

\* C17 as stated: the key of a priority p >= 0 has the integer part of p and
\* a fractional part of at most 0.99.
C17_KeyWithinTier ==
    Scored => /\ ret.val.key.int = call.prio \div 100
              /\ ret.val.key.frac <= (99 * Scale) \div 100

----------------------------------------------------------------------------
(* Function-level specification of the colour conversion: the spaces are    *)
(* fixed, the slice of values grows one value at a time and convert is      *)
(* applied to it.                                                           *)

SourceNames == {"rgb", "rgba", "hex", "hsl", "hsv", "lab", "cmyk"}
TargetNames == {"rgb", "hex", "hsl", "hsv", "lab", "invalid"}
ColourValues == {0, 255}

ConvertCall(from, values, to) ==
    [fn |-> "convert", from |-> from, values |-> values, to |-> to]

InitColour ==
    /\ SysIdle
    /\ \E from \in SourceNames, to \in TargetNames :
          /\ call = ConvertCall(from, <<>>, to)
          /\ ret = Ret(convert(from, <<>>, to))

ExtendValues ==
    /\ call.fn = "convert"
    /\ Len(call.values) < MaxValues
    /\ \E v \in ColourValues :
          LET values == Append(call.values, v)
          IN  /\ call' = ConvertCall(call.from, values, call.to)
              /\ ret' = Ret(convert(call.from, values, call.to))
    /\ UNCHANGED sysvars

NextColour == ExtendValues

SpecColour == InitColour /\ [][NextColour]_vars

\* C25 as stated: convert returns None, and does not panic, when the source
\* space is unknown, the target space is unknown, or fewer than three values
\* are supplied.
C25_InvalidInputsGiveNone ==
    (call.fn = "convert"
       /\ (\/ call.from \notin {"rgb", "rgba", "hex", "hsl", "hsv", "lab"}
           \/ call.to \notin {"rgb", "hex", "hsl", "hsv", "lab"}
           \/ Len(call.values) < 3))
        => (~ret.val.panic /\ ret.val.value = None)

====
